---- MODULE Spec2Model ----
(***************************************************************************)
(* Model of src/index.py: the Lambda entry point `handler`, which unwraps  *)
(* a batch of SQS records (each an SNS envelope around an S3 event),       *)
(* fetches every referenced object, transforms it with                     *)
(* process_file_content, stores the artifact and publishes a notification. *)
(*                                                                         *)
(* One action models one step of handler between two external calls.  The  *)
(* external collaborators (S3, SNS, the clock, os.environ) are state of    *)
(* the model; every external call may return or raise.                     *)
(***************************************************************************)
EXTENDS Integers, Sequences, FiniteSets, TLC

VARIABLES
    environ,        \* os.environ: the configuration variables that are set
    event,          \* event[i]: the batch handed to invocation i
    frame,          \* frame[i]: the local variables and position of invocation i
    result,         \* result[i]: the value invocation i returned
    s3,             \* the object store: a set of [Bucket, Key, Body]
    topic,          \* the messages delivered to the SNS topic, in order
    calls,          \* every external call attempted, in order
    now             \* the last reading of the wall clock, in seconds

vars == <<environ, event, frame, result, s3, topic, calls, now>>

----------------------------------------------------------------------------
(* Bounds of the model *)

MaxRecords == 2         \* SQS records in one batch
MaxTasks == 2           \* S3 sub-events in one batch, over all its records
MaxLen == 3             \* bytes of an object, where the functions are run alone

Invocations == {1, 2}   \* invocation ids; Spec runs invocation 1 alone

----------------------------------------------------------------------------
(* Values of the environment *)

OutputBucketName == "out"
TopicArn == "arn:aws:sns:topic"
SourceBucket == "in"
Keys == {"a", "b"}

\* The seconds of the day the clock shows during a run: the last second of a
\* minute and the first of the next.
ClockValues == {59, 60}

\* The content of the source objects: "a" is the text "hi", "b" starts like a
\* PNG file (0x89 is not a valid first byte of a UTF-8 sequence).
ObjectBytes(key) == IF key = "a" THEN <<104, 105>> ELSE <<137, 80>>

Unbound == "<unbound>"  \* a local variable that was never assigned
NoError == ""           \* the error of a call that returned

\* The errors the collaborators raise, by their str().
GetErrors == {"NoSuchKey"}
PutErrors == {"AccessDenied"}
PublishErrors == {"EndpointConnectionError"}
JSONDecodeError == "Expecting value: line 1 column 1 (char 0)"
KeyError(k) == "'" \o k \o "'"

----------------------------------------------------------------------------
(* Serialised documents.  A JSON text is [json |-> d] for the document d it *)
(* parses to; any other text does not parse.                                *)

Json(doc) == [json |-> doc]
NotJson == [raw |-> "not json"]

S3Record(bucket, key) ==
    [s3 |-> [bucket |-> [name |-> bucket], object |-> [key |-> key]]]
S3RecordNoName(key) ==
    [s3 |-> [bucket |-> [arn |-> "arn:aws:s3:::in"], object |-> [key |-> key]]]
S3RecordNoKey(bucket) ==
    [s3 |-> [bucket |-> [name |-> bucket], object |-> [eTag |-> "0"]]]

S3RecordChoices ==
    {S3Record(SourceBucket, k) : k \in Keys}
        \cup {S3RecordNoName("a"), S3RecordNoKey(SourceBucket)}

S3RecordLists == UNION {[1..n -> S3RecordChoices] : n \in 0..MaxTasks}

SqsRecord(s3_records) ==
    [body |-> Json([Message |-> Json([Records |-> s3_records])])]

SqsRecordChoices ==
    {[messageId |-> "no body"],
     [body |-> NotJson],
     [body |-> Json([Type |-> "Notification"])],
     [body |-> Json([Message |-> NotJson])],
     [body |-> Json([Message |-> Json([Event |-> "s3:TestEvent"])])]}
        \cup {SqsRecord(l) : l \in S3RecordLists}

\* The number of sub-events a record carries (0 when it does not unwrap).
RECURSIVE SubEventCount(_)
SubEventCount(records) ==
    IF records = <<>> THEN 0
    ELSE LET b == IF "body" \in DOMAIN Head(records) THEN Head(records).body
                  ELSE NotJson
             n == IF "json" \notin DOMAIN b THEN 0
                  ELSE IF "Message" \notin DOMAIN b.json THEN 0
                  ELSE IF "json" \notin DOMAIN b.json.Message THEN 0
                  ELSE IF "Records" \notin DOMAIN b.json.Message.json THEN 0
                  ELSE Len(b.json.Message.json.Records)
         IN  n + SubEventCount(Tail(records))

Batches ==
    {rs \in UNION {[1..n -> SqsRecordChoices] : n \in 0..MaxRecords} :
        SubEventCount(rs) <= MaxTasks}

Events == {[Records |-> rs] : rs \in Batches} \cup {[detail |-> "no records"]}

Environs ==
    {[OUTPUT_BUCKET |-> OutputBucketName, SNS_TOPIC_ARN |-> TopicArn],
     [OUTPUT_BUCKET |-> OutputBucketName],
     [SNS_TOPIC_ARN |-> TopicArn]}

----------------------------------------------------------------------------
(* The clock: datetime.now(), at second resolution, on one fixed day *)

Digits == <<"0", "1", "2", "3", "4", "5", "6", "7", "8", "9">>
Digit(n) == Digits[n + 1]
Pad2_Unpadded(n) == IF n < 10 THEN Digit(n) ELSE Digit((n \div 10) % 10) \o Digit(n % 10)
Pad2(n) == Digit((n \div 10) % 10) \o Digit(n % 10)
Hour(t) == (t \div 3600) % 24
Minute(t) == (t \div 60) % 60
Second(t) == t % 60

\* The clock counts the seconds from 2024-01-01 00:00:00, within January.
DayOfMonth(t) == (t \div 86400) + 1

\* datetime.now().strftime("%Y%m%d_%H%M%S")
strftime(t) ==
    "202401" \o Pad2(DayOfMonth(t)) \o "_"
        \o Pad2(Hour(t)) \o Pad2(Minute(t)) \o Pad2(Second(t))

\* datetime.now().isoformat(), without the microseconds
isoformat(t) ==
    "2024-01-" \o Pad2(DayOfMonth(t)) \o "T"
        \o Pad2(Hour(t)) \o ":" \o Pad2(Minute(t)) \o ":" \o Pad2(Second(t))

\* datetime.now(): a reading of the clock is not before the last one
ClockReadings == {t \in ClockValues : t >= now}

----------------------------------------------------------------------------
(* process_file_content.  A bytes value is a sequence whose elements are    *)
(* [byte |-> n], one byte, or [text |-> s], the UTF-8 encoding of the       *)
(* string s; an object's content is a sequence of byte values 0..255.       *)

Byte(n) == [byte |-> n]
Text(s) == [text |-> s]

IsCont(b) == b >= 128 /\ b <= 191

\* content.decode('utf-8') succeeds
RECURSIVE IsUtf8(_)
IsUtf8(bs) ==
    IF bs = <<>> THEN TRUE
    ELSE LET b == Head(bs)
             n == IF b < 128 THEN 1
                  ELSE IF b >= 194 /\ b <= 223 THEN 2
                  ELSE IF b >= 224 /\ b <= 239 THEN 3
                  ELSE IF b >= 240 /\ b <= 244 THEN 4
                  ELSE 0
         IN  /\ n > 0
             /\ Len(bs) >= n
             /\ \A j \in 2..n : IsCont(bs[j])
             /\ (b = 224 => bs[2] >= 160)
             /\ (b = 237 => bs[2] <= 159)
             /\ (b = 240 => bs[2] >= 144)
             /\ (b = 244 => bs[2] <= 143)
             /\ IsUtf8(SubSeq(bs, n + 1, Len(bs)))

\* str.upper() on the ASCII letters (the model's text objects are ASCII)
UpperByte(b) == IF b >= 97 /\ b <= 122 THEN b - 32 ELSE b

RawBytes_Uppercased(bs) == [j \in 1..Len(bs) |-> Byte(UpperByte(bs[j]))]
RawBytes(bs) == [j \in 1..Len(bs) |-> Byte(bs[j])]
UpperBytes(bs) == [j \in 1..Len(bs) |-> Byte(UpperByte(bs[j]))]

process_file_content(content, filename, t) ==
    IF IsUtf8(content)
    THEN <<Text("\nFile Processing Report\n=====================\nOriginal File: "
                 \o filename \o "\nProcessed At: " \o isoformat(t)
                 \o "\nOriginal Size: " \o ToString(Len(content))
                 \o " bytes\n\nProcessed Content:\n")>>
         \o UpperBytes(content)
         \o <<Text("\n\nProcessing completed successfully.\n")>>
    ELSE <<Text("\nBinary File Processing Report\n============================\nOriginal File: "
                 \o filename \o "\nProcessed At: " \o isoformat(t)
                 \o "\nOriginal Size: " \o ToString(Len(content))
                 \o " bytes\n\n[Binary content preserved]\n")>>
         \o RawBytes(content)

\* lines 42-43: the destination key
OutputKey_Untimed(object_key, t) == "processed_" \o object_key
OutputKey(object_key, t) == "processed_" \o strftime(t) \o "_" \o object_key

\* len(processed_content)
RECURSIVE ByteLen(_)
ByteLen(bs) ==
    IF bs = <<>> THEN 0
    ELSE (IF "text" \in DOMAIN Head(bs) THEN Len(Head(bs).text) ELSE 1)
            + ByteLen(Tail(bs))

\* json.dumps of a string
JsonString(str) == "\"" \o str \o "\""

----------------------------------------------------------------------------
(* The state of one invocation *)

InitFrame ==
    [pc |-> "idle",
     output_bucket |-> Unbound, sns_topic_arn |-> Unbound,
     ri |-> 0, s3_records |-> <<>>, si |-> 0,
     bucket_name |-> Unbound, object_key |-> Unbound,
     processed_content |-> <<>>, output_key |-> Unbound,
     e |-> Unbound]

NoResult == [statusCode |-> 0, body |-> ""]

SourceObjects ==
    {[Bucket |-> SourceBucket, Key |-> k, Body |-> ObjectBytes(k)] : k \in Keys}

InitCommon ==
    /\ environ \in Environs
    /\ result = [i \in Invocations |-> NoResult]
    /\ s3 = SourceObjects
    /\ topic = <<>>
    /\ calls = <<>>
    /\ now \in ClockValues
    /\ \A t \in ClockValues : now <= t

\* One invocation is started; the other id is never invoked.
Init ==
    /\ InitCommon
    /\ \E ev \in Events :
          event = [i \in Invocations |-> IF i = 1 THEN ev ELSE [Records |-> <<>>]]
    /\ frame = [i \in Invocations |->
                  [InitFrame EXCEPT !.pc = IF i = 1 THEN "start" ELSE "idle"]]

----------------------------------------------------------------------------
(* The two functions of a task run alone, on inputs of every shape: line 39 *)
(* (process_file_content) and lines 42-43 (the destination key).            *)

\* 'h'; 0xC2, the first byte of a two-byte character; 0xA9 and 0x89, which can
\* only continue one (0xC2 0xA9 is the copyright sign, 0xC2 0x89 a control
\* character).  str.upper() changes none of these characters but 'h'.
SampleBytes == {104, 194, 169, 137}
Contents == UNION {[1..n -> SampleBytes] : n \in 0..MaxLen}
FileNames == {"a", "notes.txt", "image.png"}

\* Readings of the clock with one and two digits in every field
SampleTimes == {0, 59, 60, 3599, 36000, 86399, 86400, 9 * 86400 + 45296}

FunctionInit ==
    /\ environ = [OUTPUT_BUCKET |-> OutputBucketName, SNS_TOPIC_ARN |-> TopicArn]
    /\ event = [i \in Invocations |-> [Records |-> <<>>]]
    /\ result = [i \in Invocations |-> NoResult]
    /\ topic = <<>>
    /\ calls = <<>>
    /\ now \in SampleTimes
    /\ \E k \in FileNames, c \in Contents :
          /\ s3 = {[Bucket |-> SourceBucket, Key |-> k, Body |-> c]}
          /\ frame = [i \in Invocations |->
                IF i = 1
                THEN [InitFrame EXCEPT !.bucket_name = SourceBucket, !.object_key = k,
                                       !.pc = "process_file_content"]
                ELSE InitFrame]

\* line 39
ProcessFileContent(i) ==
    /\ frame[i].pc = "process_file_content"
    /\ \E o \in s3 :
          /\ o.Key = frame[i].object_key
          /\ frame' = [frame EXCEPT ![i] =
                [@ EXCEPT !.processed_content =
                              process_file_content(o.Body, frame[i].object_key, now),
                          !.pc = "output_key"]]
    /\ UNCHANGED <<environ, event, result, s3, topic, calls, now>>

\* lines 42-43
GenerateOutputKey(i) ==
    /\ frame[i].pc = "output_key"
    /\ frame' = [frame EXCEPT ![i] =
          [@ EXCEPT !.output_key = OutputKey(frame[i].object_key, now),
                    !.pc = "put_object_args"]]
    /\ UNCHANGED <<environ, event, result, s3, topic, calls, now>>

FunctionNext ==
    \/ \E i \in Invocations : ProcessFileContent(i)
    \/ \E i \in Invocations : GenerateOutputKey(i)

FunctionSpec == FunctionInit /\ [][FunctionNext]_vars

----------------------------------------------------------------------------
(* Exceptions.  Every statement of handler's body is inside the try of      *)
(* line 14, so an exception raised anywhere in it is bound to e and control *)
(* passes to the except clause of line 80.                                  *)

Raise(f, err) == [f EXCEPT !.e = err, !.pc = "except"]

\* get_object (or Body.read) raises: not caught in the loop
GetRaised_Retried(f, err) == f
GetRaised_Skipped(f, err) == [f EXCEPT !.si = @ + 1, !.pc = "for_s3_record"]
GetRaised(f, err) == Raise(f, err)

\* put_object raises: not caught in the loop
PutRaised_Ignored(f, err) == [f EXCEPT !.pc = "publish"]
PutRaised_Skipped(f, err) == [f EXCEPT !.si = @ + 1, !.pc = "for_s3_record"]
PutRaised(f, err) == Raise(f, err)

\* the publish of the success message raises: not caught in the loop
PublishRaised_Swallowed(f, err) == [f EXCEPT !.si = @ + 1, !.pc = "for_s3_record"]
PublishRaised(f, err) == Raise(f, err)

\* the publish of the error message raises: caught at line 96 as sns_error,
\* printed, and handler goes on to the return of line 99; e is not rebound
ErrorPublishRaised_Reraised(f, err) == [f EXCEPT !.e = err, !.pc = "except"]
ErrorPublishRaised_Rebinds(f, err) == [f EXCEPT !.e = err, !.pc = "return_error"]
ErrorPublishRaised(f, err) == [f EXCEPT !.pc = "return_error"]

----------------------------------------------------------------------------
(* The steps of handler *)

\* lines 14-20: the configuration lookups and event['Records']
Start(i) ==
    /\ frame[i].pc = "start"
    /\ frame' = [frame EXCEPT ![i] =
          IF "OUTPUT_BUCKET" \notin DOMAIN environ
          THEN Raise(@, KeyError("OUTPUT_BUCKET"))
          ELSE LET f1 == [@ EXCEPT !.output_bucket = environ.OUTPUT_BUCKET] IN
               IF "SNS_TOPIC_ARN" \notin DOMAIN environ
               THEN Raise(f1, KeyError("SNS_TOPIC_ARN"))
               ELSE LET f2 == [f1 EXCEPT !.sns_topic_arn = environ.SNS_TOPIC_ARN] IN
                    IF "Records" \notin DOMAIN event[i]
                    THEN Raise(f2, KeyError("Records"))
                    ELSE [f2 EXCEPT !.ri = 1, !.pc = "for_record"]]
    /\ UNCHANGED <<environ, event, result, s3, topic, calls, now>>

\* lines 22-28: one SQS record is unwrapped down to its list of S3 records;
\* the result is the frame after it
UnwrapRecord(f, record) ==
    IF "body" \notin DOMAIN record
    THEN Raise(f, KeyError("body"))
    ELSE IF "json" \notin DOMAIN record.body
    THEN Raise(f, JSONDecodeError)
    ELSE LET message_body == record.body.json IN
         IF "Message" \notin DOMAIN message_body
         THEN Raise(f, KeyError("Message"))
         ELSE IF "json" \notin DOMAIN message_body.Message
         THEN Raise(f, JSONDecodeError)
         ELSE LET sns_message == message_body.Message.json IN
              IF "Records" \notin DOMAIN sns_message
              THEN Raise(f, KeyError("Records"))
              ELSE [f EXCEPT !.s3_records = sns_message.Records,
                             !.si = 1, !.pc = "for_s3_record"]

\* lines 20-28: the next SQS record of the batch
NextRecord(i) ==
    /\ frame[i].pc = "for_record"
    /\ frame[i].ri <= Len(event[i].Records)
    /\ frame' = [frame EXCEPT ![i] = UnwrapRecord(@, event[i].Records[@.ri])]
    /\ UNCHANGED <<environ, event, result, s3, topic, calls, now>>

\* line 28: the S3 record the inner loop is at
CurrentS3Record_Reversed(f) == f.s3_records[Len(f.s3_records) + 1 - f.si]
CurrentS3Record(f) == f.s3_records[f.si]

\* lines 29-30: the bucket name and the object key of an S3 record
ReadS3Record_SkipsMalformed(f, s3_record) ==
    IF "name" \notin DOMAIN s3_record.s3.bucket \/ "key" \notin DOMAIN s3_record.s3.object
    THEN [f EXCEPT !.si = @ + 1, !.pc = "for_s3_record"]
    ELSE [f EXCEPT !.bucket_name = s3_record.s3.bucket.name,
                   !.object_key = s3_record.s3.object.key,
                   !.pc = "get_object"]
ReadS3Record(f, s3_record) ==
    IF "name" \notin DOMAIN s3_record.s3.bucket
    THEN Raise(f, KeyError("name"))
    ELSE LET f1 == [f EXCEPT !.bucket_name = s3_record.s3.bucket.name] IN
         IF "key" \notin DOMAIN s3_record.s3.object
         THEN Raise(f1, KeyError("key"))
         ELSE [f1 EXCEPT !.object_key = s3_record.s3.object.key,
                         !.pc = "get_object"]

\* lines 28-32: the next S3 record of the current SQS record
NextS3Record(i) ==
    /\ frame[i].pc = "for_s3_record"
    /\ frame[i].si <= Len(frame[i].s3_records)
    /\ frame' = [frame EXCEPT ![i] = ReadS3Record(@, CurrentS3Record(@))]
    /\ UNCHANGED <<environ, event, result, s3, topic, calls, now>>

\* line 28: the S3 records of the current SQS record are exhausted
EndS3Records(i) ==
    /\ frame[i].pc = "for_s3_record"
    /\ frame[i].si > Len(frame[i].s3_records)
    /\ frame' = [frame EXCEPT ![i] = [@ EXCEPT !.ri = @ + 1, !.pc = "for_record"]]
    /\ UNCHANGED <<environ, event, result, s3, topic, calls, now>>

GetCall(i, f, err) ==
    [inv |-> i, op |-> "get_object", Bucket |-> f.bucket_name,
     Key |-> f.object_key, error |-> err]

\* lines 35-39: s3_client.get_object, Body.read and process_file_content
GetObject(i) ==
    /\ frame[i].pc = "get_object"
    /\ \/ \E err \in GetErrors :
            /\ calls' = Append(calls, GetCall(i, frame[i], err))
            /\ frame' = [frame EXCEPT ![i] = GetRaised(@, err)]
            /\ now' = now
       \/ \E o \in s3, t \in ClockReadings :
            /\ o.Bucket = frame[i].bucket_name
            /\ o.Key = frame[i].object_key
            /\ calls' = Append(calls, GetCall(i, frame[i], NoError))
            /\ now' = t
            /\ frame' = [frame EXCEPT ![i] =
                  [@ EXCEPT !.processed_content =
                                process_file_content(o.Body, frame[i].object_key, t),
                            !.pc = "put_object"]]
    /\ UNCHANGED <<environ, event, result, s3, topic>>

\* at: the reading of the clock of line 42, just before the call
PutCall(i, f, key, t, err) ==
    [inv |-> i, op |-> "put_object", at |-> t, Bucket |-> f.output_bucket,
     Key |-> key, Body |-> f.processed_content, error |-> err]

\* s3_client.put_object: the object replaces any object under the same key
PutInto_KeepsFirst(store, bucket, key, body) ==
    IF \E o \in store : o.Bucket = bucket /\ o.Key = key THEN store
    ELSE store \cup {[Bucket |-> bucket, Key |-> key, Body |-> body]}
PutInto_DropsEarlier(store, bucket, key, body) ==
    {o \in store : o.Bucket # bucket}
        \cup {[Bucket |-> bucket, Key |-> key, Body |-> body]}
PutInto(store, bucket, key, body) ==
    {o \in store : ~(o.Bucket = bucket /\ o.Key = key)}
        \cup {[Bucket |-> bucket, Key |-> key, Body |-> body]}

\* lines 41-50: the destination key and s3_client.put_object
PutObject(i) ==
    /\ frame[i].pc = "put_object"
    /\ \E t \in ClockReadings :
          LET output_key == OutputKey(frame[i].object_key, t)
              f1 == [frame[i] EXCEPT !.output_key = output_key]
          IN  /\ now' = t
              /\ \/ \E err \in PutErrors :
                       /\ calls' = Append(calls, PutCall(i, f1, output_key, t, err))
                       /\ frame' = [frame EXCEPT ![i] = PutRaised(f1, err)]
                       /\ s3' = s3
                 \/ /\ calls' = Append(calls, PutCall(i, f1, output_key, t, NoError))
                    /\ s3' = PutInto(s3, f1.output_bucket, output_key,
                                     f1.processed_content)
                    /\ frame' = [frame EXCEPT ![i] = [f1 EXCEPT !.pc = "publish"]]
    /\ UNCHANGED <<environ, event, result, topic>>

\* lines 53-65
SuccessMessage_ReportsSourceKey(f, t) ==
    [status |-> "success",
     original_file |-> [bucket |-> f.bucket_name, key |-> f.object_key],
     processed_file |-> [bucket |-> f.output_bucket, key |-> f.object_key],
     processed_at |-> isoformat(t),
     file_size |-> ByteLen(f.processed_content)]
SuccessMessage(f, t) ==
    [status |-> "success",
     original_file |-> [bucket |-> f.bucket_name, key |-> f.object_key],
     processed_file |-> [bucket |-> f.output_bucket, key |-> f.output_key],
     processed_at |-> isoformat(t),
     file_size |-> ByteLen(f.processed_content)]

PublishCall(i, f, subject, message, err) ==
    [inv |-> i, op |-> "publish", TopicArn |-> f.sns_topic_arn,
     Subject |-> subject, Message |-> message, error |-> err]

\* line 28: the inner loop moves on after a task
AfterTask_SkipsOne(f) == [f EXCEPT !.si = @ + 2, !.pc = "for_s3_record"]
AfterTask(f) == [f EXCEPT !.si = @ + 1, !.pc = "for_s3_record"]

\* lines 52-73: sns_client.publish of the success message, then the next S3 record
PublishSuccess(i) ==
    /\ frame[i].pc = "publish"
    /\ \E t \in ClockReadings :
          LET subject == "File Processed: " \o frame[i].object_key
              message == Json(SuccessMessage(frame[i], t))
          IN  /\ now' = t
              /\ \/ \E err \in PublishErrors :
                       /\ calls' = Append(calls,
                                      PublishCall(i, frame[i], subject, message, err))
                       /\ frame' = [frame EXCEPT ![i] = PublishRaised(@, err)]
                       /\ topic' = topic
                 \/ /\ calls' = Append(calls,
                                   PublishCall(i, frame[i], subject, message, NoError))
                    /\ topic' = Append(topic, [Subject |-> subject, Message |-> message])
                    /\ frame' = [frame EXCEPT ![i] = AfterTask(@)]
    /\ UNCHANGED <<environ, event, result, s3>>

\* lines 20, 75-78: the records are exhausted
ReturnSuccess(i) ==
    /\ frame[i].pc = "for_record"
    /\ frame[i].ri > Len(event[i].Records)
    /\ result' = [result EXCEPT ![i] =
                    [statusCode |-> 200,
                     body |-> JsonString("Files processed successfully")]]
    /\ frame' = [frame EXCEPT ![i].pc = "done"]
    /\ UNCHANGED <<environ, event, s3, topic, calls, now>>

\* lines 84-88
ErrorMessage(f, t) ==
    [status |-> "error", error |-> f.e, processed_at |-> isoformat(t)]

\* line 92: a local name can be read once it was assigned
Bound_Always(v) == TRUE
Bound(v) == v # Unbound

\* lines 80-97: the error message is published; a failure of that is swallowed.
\* With sns_topic_arn unbound, evaluating the arguments of the call raises
\* NameError before any call is made.
PublishError(i) ==
    /\ frame[i].pc = "except"
    /\ \E t \in ClockReadings :
          LET subject == "File Processing Error"
              message == Json(ErrorMessage(frame[i], t))
          IN  /\ now' = t
              /\ IF ~Bound(frame[i].sns_topic_arn)
                 THEN /\ calls' = calls
                      /\ topic' = topic
                      /\ frame' = [frame EXCEPT ![i] =
                            ErrorPublishRaised(@, "name 'sns_topic_arn' is not defined")]
                 ELSE \/ \E err \in PublishErrors :
                           /\ calls' = Append(calls,
                                          PublishCall(i, frame[i], subject, message, err))
                           /\ topic' = topic
                           /\ frame' = [frame EXCEPT ![i] = ErrorPublishRaised(@, err)]
                      \/ /\ calls' = Append(calls,
                                        PublishCall(i, frame[i], subject, message, NoError))
                         /\ topic' = Append(topic,
                                        [Subject |-> subject, Message |-> message])
                         /\ frame' = [frame EXCEPT ![i].pc = "return_error"]
    /\ UNCHANGED <<environ, event, result, s3>>

\* lines 99-102
ReturnError(i) ==
    /\ frame[i].pc = "return_error"
    /\ result' = [result EXCEPT ![i] =
                    [statusCode |-> 500,
                     body |-> JsonString("Error processing files: " \o frame[i].e)]]
    /\ frame' = [frame EXCEPT ![i].pc = "done"]
    /\ UNCHANGED <<environ, event, s3, topic, calls, now>>

Next ==
    \/ \E i \in Invocations : Start(i)
    \/ \E i \in Invocations : NextRecord(i)
    \/ \E i \in Invocations : NextS3Record(i)
    \/ \E i \in Invocations : EndS3Records(i)
    \/ \E i \in Invocations : GetObject(i)
    \/ \E i \in Invocations : PutObject(i)
    \/ \E i \in Invocations : PublishSuccess(i)
    \/ \E i \in Invocations : ReturnSuccess(i)
    \/ \E i \in Invocations : PublishError(i)
    \/ \E i \in Invocations : ReturnError(i)

Spec == Init /\ [][Next]_vars

\* handler is sequential code and every external call returns or raises: a
\* step that can be taken is taken.
FairSpec == Spec /\ WF_vars(Next)

----------------------------------------------------------------------------
(* What a batch asks for, read off the batch itself.  These definitions do  *)
(* not look at the run: they are what the properties compare the run with.  *)

\* The error of unwrapping one SQS record, NoError when it unwraps
EnvelopeError(record) ==
    IF "body" \notin DOMAIN record THEN KeyError("body")
    ELSE IF "json" \notin DOMAIN record.body THEN JSONDecodeError
    ELSE IF "Message" \notin DOMAIN record.body.json THEN KeyError("Message")
    ELSE IF "json" \notin DOMAIN record.body.json.Message THEN JSONDecodeError
    ELSE IF "Records" \notin DOMAIN record.body.json.Message.json THEN KeyError("Records")
    ELSE NoError

SubEvents(record) == record.body.json.Message.json.Records

SubEventError(s3_record) ==
    IF "name" \notin DOMAIN s3_record.s3.bucket THEN KeyError("name")
    ELSE IF "key" \notin DOMAIN s3_record.s3.object THEN KeyError("key")
    ELSE NoError

TaskOf(s3_record) ==
    [bucket |-> s3_record.s3.bucket.name, key |-> s3_record.s3.object.key]

\* The well-formed sub-events of a list up to its first malformed one
RECURSIVE SubEventPrefix(_)
SubEventPrefix(l) ==
    IF l = <<>> \/ SubEventError(Head(l)) # NoError THEN <<>>
    ELSE <<TaskOf(Head(l))>> \o SubEventPrefix(Tail(l))

RECURSIVE FirstSubEventError(_)
FirstSubEventError(l) ==
    IF l = <<>> THEN NoError
    ELSE IF SubEventError(Head(l)) # NoError THEN SubEventError(Head(l))
    ELSE FirstSubEventError(Tail(l))

\* The tasks of a list of SQS records, in record order then sub-event order,
\* up to the first malformed record or sub-event
RECURSIVE TaskPrefix(_)
TaskPrefix(records) ==
    IF records = <<>> \/ EnvelopeError(Head(records)) # NoError THEN <<>>
    ELSE LET l == SubEvents(Head(records))
             tasks == SubEventPrefix(l)
         IN  IF Len(tasks) < Len(l) THEN tasks
             ELSE tasks \o TaskPrefix(Tail(records))

RECURSIVE FirstDecodeError(_)
FirstDecodeError(records) ==
    IF records = <<>> THEN NoError
    ELSE LET err == EnvelopeError(Head(records)) IN
         IF err # NoError THEN err
         ELSE LET suberr == FirstSubEventError(SubEvents(Head(records))) IN
              IF suberr # NoError THEN suberr
              ELSE FirstDecodeError(Tail(records))

\* The decode error of a batch, NoError when every record is well formed
DecodeError(ev) ==
    IF "Records" \notin DOMAIN ev THEN KeyError("Records")
    ELSE FirstDecodeError(ev.Records)

WellFormed(ev) == DecodeError(ev) = NoError

\* The tasks of a batch that precede its first malformed element: all its
\* tasks when the batch is well formed
TasksOf(ev) == IF "Records" \notin DOMAIN ev THEN <<>> ELSE TaskPrefix(ev.Records)

----------------------------------------------------------------------------
(* What a run did, read off the external calls *)

CallsOf(i) == SelectSeq(calls, LAMBDA c : c.inv = i)
IsGet(c) == c.op = "get_object"
IsPut(c) == c.op = "put_object"
IsSuccessPublish(c) == c.op = "publish" /\ c.Message.json.status = "success"
IsErrorPublish(c) == c.op = "publish" /\ c.Message.json.status = "error"
Returned(c) == c.error = NoError

Gets(i) == SelectSeq(CallsOf(i), IsGet)
Puts(i) == SelectSeq(CallsOf(i), IsPut)
SuccessPublishes(i) == SelectSeq(CallsOf(i), IsSuccessPublish)
ErrorPublishes(i) == SelectSeq(CallsOf(i), IsErrorPublish)

\* The invocations that were started
Started == {i \in Invocations : frame[i].pc # "idle"}
Done(i) == frame[i].pc = "done"
EnvOk == DOMAIN environ = {"OUTPUT_BUCKET", "SNS_TOPIC_ARN"}

\* The positions of the calls of a sequence that raised
Raisers(cs) == {p \in 1..Len(cs) : ~Returned(cs[p])}
RaisedAt(i) == Raisers(CallsOf(i))
NoCallRaised(i) == RaisedAt(i) = {}

\* A retrieval, a store and a success publish are those of task t.
GetRefersTo(c, t) == c.Bucket = t.bucket /\ c.Key = t.key
PutRefersTo(c, t) ==
    /\ c.Bucket = OutputBucketName
    /\ \E tm \in ClockValues : c.Key = "processed_" \o strftime(tm) \o "_" \o t.key
PublishRefersTo(c, t) ==
    /\ c.TopicArn = TopicArn
    /\ c.Subject = "File Processed: " \o t.key
    /\ c.Message.json.original_file = [bucket |-> t.bucket, key |-> t.key]
    /\ c.Message.json.processed_file.bucket = OutputBucketName

\* The messages that reached the topic, by status
Delivered(status) == SelectSeq(topic, LAMBDA m : m.Message.json.status = status)

\* The publish calls, of every invocation, that returned
ReturnedPublishes(status) ==
    SelectSeq(calls, LAMBDA c : c.op = "publish" /\ Returned(c)
                                  /\ c.Message.json.status = status)

\* The keys of the objects in the output bucket, and the keys of the stores
\* that returned
StoredKeys == {o.Key : o \in {x \in s3 : x.Bucket = OutputBucketName}}
ReturnedPutKeys ==
    {calls[p].Key : p \in {q \in 1..Len(calls) : IsPut(calls[q]) /\ Returned(calls[q])}}

\* Call p of the calls cs of invocation i raised, and it is the last call of
\* the run but for one publish of an error message that carries its error.
AbortsBatchAt(i, cs, p) ==
    /\ Len(cs) <= p + 1
    /\ Len(cs) = p + 1 =>
          /\ IsErrorPublish(cs[p + 1])
          /\ cs[p + 1].Message.json.error = cs[p].error
          /\ cs[p + 1].Subject = "File Processing Error"
          /\ cs[p + 1].TopicArn = TopicArn
    /\ frame[i].pc \in {"except", "return_error", "done"}
    /\ frame[i].pc # "except" => Len(cs) = p + 1
    /\ Done(i) => result[i].statusCode = 500

----------------------------------------------------------------------------
(* C1: for a batch whose records unwrap to N well-formed sub-events, in a   *)
(* run in which no external call fails (the configuration lookups           *)
(* included), handler makes exactly N retrievals, N stores and N success    *)
(* publishes, and the j-th of each refers to the j-th sub-event in record   *)
(* order then sub-event order; the j-th success message names the key the   *)
(* j-th store wrote.                                                        *)
C1_ExactlyNInOrder ==
    \A i \in Started :
        (Done(i) /\ EnvOk /\ WellFormed(event[i]) /\ NoCallRaised(i)) =>
            LET T == TasksOf(event[i])
                N == Len(T)
                cs == CallsOf(i)
                G == SelectSeq(cs, IsGet)
                P == SelectSeq(cs, IsPut)
                S == SelectSeq(cs, IsSuccessPublish)
            IN  /\ Len(cs) = 3 * N
                /\ Len(G) = N
                /\ Len(P) = N
                /\ Len(S) = N
                /\ \A j \in 1..N :
                      /\ GetRefersTo(G[j], T[j])
                      /\ PutRefersTo(P[j], T[j])
                      /\ PublishRefersTo(S[j], T[j])
                      /\ S[j].Message.json.processed_file.key = P[j].Key

\* A finished run over two records of one sub-event each, with different
\* keys, in which nothing failed.
C1_Witness ==
    \E i \in Started :
        /\ Done(i) /\ EnvOk /\ WellFormed(event[i]) /\ NoCallRaised(i)
        /\ Len(event[i].Records) = 2
        /\ Len(TasksOf(event[i])) = 2
        /\ TasksOf(event[i])[1] # TasksOf(event[i])[2]
        /\ Len(SuccessPublishes(i)) = 2
        /\ result[i].statusCode = 200

----------------------------------------------------------------------------
(* C2: when get_object raises for task k, no retrieval, store or success    *)
(* publish is made after it (none for task k, none for a later task):       *)
(* the only call that follows is one publish of an error message carrying   *)
(* the retrieval's error, made before handler returns, and handler returns  *)
(* 500.  That message reaches the topic when its publish returns.           *)
C2_GetFailureAbortsBatch ==
    \A i \in Started :
        LET cs == CallsOf(i) IN
        \A p \in Raisers(cs) :
            IsGet(cs[p]) =>
                /\ AbortsBatchAt(i, cs, p)
                /\ Len(SelectSeq(cs, IsGet)) = Len(SelectSeq(cs, IsPut)) + 1
                /\ Len(SelectSeq(cs, IsPut)) = Len(SelectSeq(cs, IsSuccessPublish))
                /\ Done(i) => Len(SelectSeq(cs, IsErrorPublish)) = 1
                /\ Len(Delivered("error")) = Len(ReturnedPublishes("error"))

\* A finished run over two tasks whose first retrieval raised.
C2_Witness ==
    \E i \in Started :
        /\ Done(i)
        /\ Len(TasksOf(event[i])) = 2 /\ WellFormed(event[i])
        /\ Len(Gets(i)) = 1 /\ ~Returned(Gets(i)[1])
        /\ Len(Delivered("error")) = 1
        /\ result[i].statusCode = 500

----------------------------------------------------------------------------
(* C3: handler returns 200 exactly when the configuration was read, the     *)
(* whole batch decoded and every task of it was retrieved, stored and       *)
(* notified without any call raising; every other run returns 500.  Nothing *)
(* is returned before the run is over and no other code is ever returned.   *)
AllTasksCompleted(i) ==
    LET cs == CallsOf(i)
        N == Len(TasksOf(event[i]))
    IN  /\ EnvOk
        /\ WellFormed(event[i])
        /\ Raisers(cs) = {}
        /\ frame[i].e = Unbound
        /\ Len(SelectSeq(cs, IsGet)) = N
        /\ Len(SelectSeq(cs, IsPut)) = N
        /\ Len(SelectSeq(cs, IsSuccessPublish)) = N

C3_StatusIffAllCompleted ==
    \A i \in Started :
        /\ Done(i) =>
              /\ result[i].statusCode \in {200, 500}
              /\ result[i].statusCode = 200 <=> AllTasksCompleted(i)
              /\ result[i].statusCode = 500 <=> ~AllTasksCompleted(i)
        /\ ~Done(i) => result[i] = NoResult

\* A finished run in which one task completed and a later step failed.
C3_Witness ==
    \E i \in Started :
        /\ Done(i)
        /\ Len(SuccessPublishes(i)) >= 1 /\ Returned(SuccessPublishes(i)[1])
        /\ RaisedAt(i) # {}
        /\ result[i].statusCode = 500

----------------------------------------------------------------------------
(* C4 as stated: at the end of every run, every task whose object was       *)
(* retrieved (and transformed) has one stored artifact and one success      *)
(* notification, whatever the later store and publish calls did.            *)
ReturnedGets(i) == SelectSeq(Gets(i), Returned)
ReturnedPuts(i) == SelectSeq(Puts(i), Returned)

C4_Original ==
    \A i \in Started :
        Done(i) =>
            /\ Len(ReturnedPuts(i)) = Len(ReturnedGets(i))
            /\ Len(SuccessPublishes(i)) = Len(ReturnedGets(i))

(* C4, amended: at the end of every run, for every task whose object was    *)
(* retrieved and transformed exactly one store call was made; when that     *)
(* call returned, an artifact is in the output bucket under its key and     *)
(* exactly one success publish was made for the task, naming that key; when *)
(* it raised, nothing was stored by it and no success publish was made for  *)
(* the task.                                                                *)
C4_AtMostOneArtifactAndNotification ==
    \A i \in Started :
        Done(i) =>
            LET cs == CallsOf(i)
                P == SelectSeq(cs, IsPut)
                RP == SelectSeq(P, Returned)
                S == SelectSeq(cs, IsSuccessPublish)
            IN  /\ Len(P) = Len(ReturnedGets(i))
                /\ Len(S) = Len(RP)
                /\ \A j \in 1..Len(RP) :
                      /\ RP[j] = P[j]
                      /\ P[j].Key \in StoredKeys
                      /\ S[j].Message.json.processed_file.key = P[j].Key
                /\ StoredKeys = ReturnedPutKeys

\* A finished run in which an object was retrieved and its store raised.
C4_Witness ==
    \E i \in Started :
        /\ Done(i)
        /\ Len(ReturnedGets(i)) = 1
        /\ Len(Puts(i)) = 1 /\ ~Returned(Puts(i)[1])
        /\ StoredKeys = {}
        /\ Len(SuccessPublishes(i)) = 0

----------------------------------------------------------------------------
(* C5: every run that ends in failure has made exactly one publish of an    *)
(* error message, with status "error" and the description of the failure,   *)
(* before it returns 500: never none, never more than one.  Stated for the  *)
(* runs in which the topic is configured (SNS_TOPIC_ARN is set), the runs   *)
(* in which a notification can be sent at all.                              *)
C5_OneErrorNotificationPerFailure ==
    \A i \in Started :
        (Done(i) /\ result[i].statusCode = 500 /\ "SNS_TOPIC_ARN" \in DOMAIN environ) =>
            /\ Len(ErrorPublishes(i)) = 1
            /\ ErrorPublishes(i)[1].Message.json.status = "error"
            /\ ErrorPublishes(i)[1].Message.json.error = frame[i].e

----------------------------------------------------------------------------
(* C6 as stated: when some record of the batch is malformed at any level,   *)
(* the run makes no retrieval, no store and no success publish at all, not  *)
(* even for the tasks of the well-formed records before the malformed one.  *)
C6_Original ==
    \A i \in Started :
        (EnvOk /\ ~WellFormed(event[i])) =>
            /\ Len(Gets(i)) = 0
            /\ Len(Puts(i)) = 0
            /\ Len(SuccessPublishes(i)) = 0

(* C6, amended: when some record of the batch is malformed at any level,    *)
(* the batch is aborted when decoding reaches the first malformed element:  *)
(* no retrieval, store or success publish is made for the malformed         *)
(* sub-event or for anything after it in decode order, while the tasks      *)
(* before it are processed as in a well-formed batch (all of them, unless   *)
(* one of their calls raises first).  A run that reaches the malformed      *)
(* element fails with its decode error and returns 500.                     *)
C6_AbortAtFirstMalformed ==
    \A i \in Started :
        (EnvOk /\ ~WellFormed(event[i])) =>
            LET T == TasksOf(event[i])
                cs == CallsOf(i)
                G == SelectSeq(cs, IsGet)
                P == SelectSeq(cs, IsPut)
                S == SelectSeq(cs, IsSuccessPublish)
                E == SelectSeq(cs, IsErrorPublish)
            IN  /\ Len(G) <= Len(T)
                /\ Len(P) <= Len(T)
                /\ Len(S) <= Len(T)
                /\ \A j \in 1..Len(G) : GetRefersTo(G[j], T[j])
                /\ \A j \in 1..Len(P) : PutRefersTo(P[j], T[j])
                /\ \A j \in 1..Len(S) : PublishRefersTo(S[j], T[j])
                /\ Done(i) => result[i].statusCode = 500
                /\ (Done(i) /\ \A p \in Raisers(cs) : IsErrorPublish(cs[p])) =>
                      /\ Len(G) = Len(T)
                      /\ Len(P) = Len(T)
                      /\ Len(S) = Len(T)
                      /\ frame[i].e = DecodeError(event[i])
                      /\ Len(E) = 1
                      /\ E[1].Message.json.error = DecodeError(event[i])

\* A finished run whose first record gave one task, which was retrieved,
\* stored and notified, and whose second record does not unwrap.
C6_Witness ==
    \E i \in Started :
        /\ Done(i) /\ EnvOk /\ ~WellFormed(event[i])
        /\ Len(TasksOf(event[i])) = 1
        /\ Len(SuccessPublishes(i)) = 1 /\ Returned(SuccessPublishes(i)[1])
        /\ Len(event[i].Records) = 2
        /\ EnvelopeError(event[i].Records[2]) # NoError
        /\ result[i].statusCode = 500

----------------------------------------------------------------------------
(* C7: a failure of the publish of a task's success notification is logged  *)
(* only: the run does not enter the except clause because of it, no error   *)
(* notification is published, the remaining tasks are processed and the run *)
(* returns 200 when nothing else fails.                                     *)
OnlySuccessPublishesRaised(i) ==
    /\ RaisedAt(i) # {}
    /\ \A p \in RaisedAt(i) : IsSuccessPublish(CallsOf(i)[p])

C7_PublishFailureNotEscalated ==
    \A i \in Started :
        (EnvOk /\ WellFormed(event[i]) /\ OnlySuccessPublishesRaised(i)) =>
            /\ frame[i].pc \notin {"except", "return_error"}
            /\ Len(ErrorPublishes(i)) = 0
            /\ Done(i) =>
                  /\ Len(Gets(i)) = Len(TasksOf(event[i]))
                  /\ result[i].statusCode = 200

----------------------------------------------------------------------------
(* C8: when the except clause is entered and the publish of the error       *)
(* message itself raises (or cannot be made, sns_topic_arn being unbound),  *)
(* handler still returns: status 500, with a body that carries the          *)
(* description of the failure that entered the except clause, not that of   *)
(* the publish.                                                             *)

\* The failure that makes a run enter the except clause, read off the
\* configuration, the batch and the calls; NoError when there is none.
OriginalFailure(i) ==
    LET cs == CallsOf(i)
        first == {p \in Raisers(cs) : ~IsErrorPublish(cs[p])}
    IN  IF "OUTPUT_BUCKET" \notin DOMAIN environ THEN KeyError("OUTPUT_BUCKET")
        ELSE IF "SNS_TOPIC_ARN" \notin DOMAIN environ THEN KeyError("SNS_TOPIC_ARN")
        ELSE IF first # {} THEN cs[CHOOSE p \in first : \A q \in first : p <= q].error
        ELSE DecodeError(event[i])

ErrorPublishFailed(i) ==
    \/ /\ frame[i].pc \in {"return_error", "done"}
       /\ frame[i].e # Unbound
       /\ frame[i].sns_topic_arn = Unbound
    \/ LET E == ErrorPublishes(i) IN Len(E) = 1 /\ ~Returned(E[1])

C8_ErrorPublishFailureSwallowed ==
    \A i \in Started :
        ErrorPublishFailed(i) =>
            /\ frame[i].pc \in {"return_error", "done"}
            /\ OriginalFailure(i) # NoError
            /\ frame[i].e = OriginalFailure(i)
            /\ Len(Delivered("error")) = 0
            /\ Done(i) =>
                  /\ result[i].statusCode = 500
                  /\ result[i].body =
                        JsonString("Error processing files: " \o OriginalFailure(i))

\* A finished run whose retrieval raised and whose error publish raised too.
C8_Witness ==
    \E i \in Started :
        /\ Done(i)
        /\ Len(Gets(i)) = 1 /\ Gets(i)[1].error = "NoSuchKey"
        /\ Len(ErrorPublishes(i)) = 1
        /\ ErrorPublishes(i)[1].error = "EndpointConnectionError"
        /\ result[i].body = JsonString("Error processing files: NoSuchKey")

----------------------------------------------------------------------------
(* C9: when put_object raises for task k, no success publish is made for    *)
(* task k, no notification is made for the task on its own, and no          *)
(* retrieval, store or success publish is made for a later task: the only   *)
(* call that follows is the one publish of the except clause, carrying the  *)
(* store's error, and handler returns 500.  The store that raised wrote     *)
(* nothing.                                                                 *)
C9_PutFailureAbortsBatch ==
    \A i \in Started :
        LET cs == CallsOf(i) IN
        \A p \in Raisers(cs) :
            IsPut(cs[p]) =>
                /\ AbortsBatchAt(i, cs, p)
                /\ Len(SelectSeq(cs, IsGet)) = Len(SelectSeq(cs, IsPut))
                /\ Len(SelectSeq(cs, IsSuccessPublish)) = Len(SelectSeq(cs, IsPut)) - 1
                /\ cs[p].Key \notin ReturnedPutKeys => cs[p].Key \notin StoredKeys
                /\ Done(i) => Len(SelectSeq(cs, IsErrorPublish)) = 1

\* A finished run over two tasks in which the store of the first raised.
C9_Witness ==
    \E i \in Started :
        /\ Done(i)
        /\ Len(TasksOf(event[i])) = 2 /\ WellFormed(event[i])
        /\ Len(Puts(i)) = 1 /\ ~Returned(Puts(i)[1])
        /\ Len(Gets(i)) = 1
        /\ Len(SuccessPublishes(i)) = 0
        /\ Len(ErrorPublishes(i)) = 1
        /\ result[i].statusCode = 500

----------------------------------------------------------------------------
(* C10: the tasks of a run are processed one after the other in decode      *)
(* order.  Among the calls of a run, a store directly follows the retrieval *)
(* of the same task, a success publish directly follows the store it        *)
(* reports, and a retrieval is the first call or directly follows the       *)
(* success publish of the task before; the j-th retrieval and the j-th      *)
(* success notification are those of the j-th task of the batch, so the     *)
(* success notifications on the topic are in task order.                    *)
C10_SequentialInDecodeOrder ==
    \A i \in Started :
        LET cs == CallsOf(i)
            T == TasksOf(event[i])
            G == SelectSeq(cs, IsGet)
            S == SelectSeq(cs, IsSuccessPublish)
            D == Delivered("success")
            RS == ReturnedPublishes("success")
        IN  /\ \A p \in 1..Len(cs) :
                  /\ IsGet(cs[p]) =>
                        \/ p = 1
                        \/ IsSuccessPublish(cs[p - 1]) /\ Returned(cs[p - 1])
                  /\ IsPut(cs[p]) =>
                        /\ p > 1
                        /\ IsGet(cs[p - 1]) /\ Returned(cs[p - 1])
                        /\ \E tm \in ClockValues :
                              cs[p].Key = "processed_" \o strftime(tm) \o "_"
                                            \o cs[p - 1].Key
                  /\ IsSuccessPublish(cs[p]) =>
                        /\ p > 1
                        /\ IsPut(cs[p - 1]) /\ Returned(cs[p - 1])
                        /\ cs[p].Message.json.processed_file.key = cs[p - 1].Key
            /\ Len(G) <= Len(T)
            /\ \A j \in 1..Len(G) : GetRefersTo(G[j], T[j])
            /\ \A j \in 1..Len(S) : PublishRefersTo(S[j], T[j])
            /\ Len(D) = Len(RS)
            /\ \A j \in 1..Len(D) : D[j].Message = RS[j].Message

\* The second task of a batch of two different tasks has just been
\* retrieved, after the first was retrieved, stored and notified.
C10_Witness ==
    \E i \in Started :
        /\ Len(CallsOf(i)) = 4
        /\ IsGet(CallsOf(i)[4]) /\ Returned(CallsOf(i)[4])
        /\ CallsOf(i)[4].Key # CallsOf(i)[1].Key
        /\ frame[i].pc = "put_object"
        /\ Len(Delivered("success")) = 1

----------------------------------------------------------------------------
(* C11 as stated: when a task of the batch fails, the artifact of every     *)
(* task stored before it is in the output bucket when handler returns,      *)
(* under the key and with the content its store wrote.                      *)

\* The store a sequence of calls leaves: its returned stores, applied in order
RECURSIVE StoreAfter(_, _)
StoreAfter(store, cs) ==
    IF cs = <<>> THEN store
    ELSE LET c == Head(cs) IN
         StoreAfter(IF IsPut(c) /\ Returned(c)
                    THEN PutInto(store, c.Bucket, c.Key, c.Body) ELSE store,
                    Tail(cs))

Holds(store, c) == [Bucket |-> c.Bucket, Key |-> c.Key, Body |-> c.Body] \in store

\* The run of invocation i has failed: it is in or past the except clause
Failed(i) == frame[i].pc \in {"except", "return_error"} \/ (Done(i) /\ frame[i].e # Unbound)

C11_Original ==
    \A i \in Started :
        (Done(i) /\ Failed(i)) =>
            \A j \in 1..Len(ReturnedPuts(i)) : Holds(s3, ReturnedPuts(i)[j])

(* C11, amended: no rollback.  When a task of the batch fails, what the     *)
(* stores that returned before the failure wrote is in the output bucket    *)
(* when handler returns: every key they wrote is there, with the content of *)
(* the last of them that wrote it (an earlier artifact is replaced only by  *)
(* a later store of the batch under the same destination key); the source   *)
(* objects are untouched; the success notifications of the tasks notified   *)
(* before the failure are on the topic; handler returns 500.  No step of    *)
(* the except clause changes the store or the notifications already         *)
(* delivered.                                                               *)
C11_StoreAsLeft ==
    \A i \in Started :
        Failed(i) =>
            LET RP == ReturnedPuts(i)
                RS == SelectSeq(SuccessPublishes(i), Returned)
                D == Delivered("success")
            IN  /\ s3 = StoreAfter(SourceObjects, calls)
                /\ SourceObjects \subseteq s3
                /\ \A j \in 1..Len(RP) :
                      /\ RP[j].Key \in StoredKeys
                      /\ (\A q \in (j + 1)..Len(RP) : RP[q].Key # RP[j].Key)
                            => Holds(s3, RP[j])
                /\ Len(D) = Len(RS)
                /\ \A j \in 1..Len(RS) : D[j].Message = RS[j].Message
                /\ Done(i) => result[i].statusCode = 500

ExceptKeepsStore ==
    \A i \in Started :
        frame[i].pc \in {"except", "return_error"} =>
            /\ s3' = s3
            /\ Delivered("success")' = Delivered("success")
            /\ SubSeq(topic', 1, Len(topic)) = topic

C11_NoRollback == []C11_StoreAsLeft /\ [][ExceptKeepsStore]_vars

\* A failed run that had stored two artifacts under different keys, both
\* still in the output bucket after handler returned 500.
C11_Witness ==
    \E i \in Started :
        /\ Done(i) /\ Failed(i)
        /\ Len(ReturnedPuts(i)) = 2
        /\ ReturnedPuts(i)[1].Key # ReturnedPuts(i)[2].Key
        /\ Holds(s3, ReturnedPuts(i)[1]) /\ Holds(s3, ReturnedPuts(i)[2])
        /\ Len(Delivered("success")) >= 1
        /\ result[i].statusCode = 500

----------------------------------------------------------------------------
(* The states of an invocation, read off its position in handler *)

TaskErrors == GetErrors \cup PutErrors \cup PublishErrors

Phase(i) ==
    LET f == frame[i] IN
    CASE f.pc = "start" -> "Idle"
      [] f.pc = "for_record" /\ "Records" \in DOMAIN event[i]
            /\ f.ri > Len(event[i].Records) -> "AllTasksDone"
      [] f.pc \in {"for_record", "for_s3_record"} /\ Len(CallsOf(i)) = 0 -> "Decoding"
      [] f.pc \in {"for_record", "for_s3_record"} /\ Len(CallsOf(i)) > 0 -> "Processing"
      [] f.pc \in {"get_object", "put_object", "publish"} -> "Processing"
      [] f.pc = "except" /\ f.e \in TaskErrors -> "TaskFailed"
      [] f.pc = "except" /\ f.e \notin TaskErrors -> "DecodeFailed"
      [] f.pc = "return_error" -> "ErrorNotified"
      [] f.pc = "done" /\ result[i].statusCode = 200 -> "SuccessReported"
      [] f.pc = "done" /\ result[i].statusCode # 200 -> "Failed"
      [] OTHER -> "NotInvoked"

\* The steps of the state machine as stated.  A step inside Decoding or
\* inside Processing stays in the state; a failure of the first line of
\* decoding (or of the configuration lookups before it) and the end of an
\* empty batch pass through Decoding within the step.
StatedPath ==
    {<<"Idle", "Decoding">>, <<"Idle", "DecodeFailed">>, <<"Idle", "AllTasksDone">>,
     <<"Decoding", "Decoding">>, <<"Decoding", "DecodeFailed">>,
     <<"Decoding", "Processing">>, <<"Decoding", "AllTasksDone">>,
     <<"Processing", "Processing">>, <<"Processing", "TaskFailed">>,
     <<"Processing", "AllTasksDone">>,
     <<"DecodeFailed", "ErrorNotified">>, <<"TaskFailed", "ErrorNotified">>,
     <<"ErrorNotified", "Failed">>, <<"AllTasksDone", "SuccessReported">>}

\* What the code adds: the records are decoded one by one between the tasks,
\* so a decode failure can follow the processing of earlier tasks.
ActualPath == StatedPath \cup {<<"Processing", "DecodeFailed">>}

Follows(path) ==
    \A i \in Invocations :
        frame[i]' # frame[i] => <<Phase(i), Phase(i)'>> \in path

(* C12 as stated: every step of an invocation follows the path Idle,        *)
(* Decoding, {DecodeFailed | Processing}, {TaskFailed | AllTasksDone},       *)
(* {ErrorNotified then Failed | SuccessReported}: once a task has been       *)
(* processed the run can only fail as TaskFailed.                            *)
C12_Original == [][Follows(StatedPath)]_vars

(* C12, amended: every invocation on a finite batch, in which every         *)
(* external call returns or raises, eventually reaches one of the terminal  *)
(* states Failed (500) or SuccessReported (200) and stays there, never both;*)
(* its steps follow the stated path with one more step, from Processing to  *)
(* DecodeFailed; Failed is entered only from ErrorNotified, the state after *)
(* the attempt to publish the error, and SuccessReported only from          *)
(* AllTasksDone, with every task of the batch retrieved, stored and         *)
(* notified.                                                                *)
Terminal(i) ==
    /\ Done(i)
    /\ Phase(i) \in {"Failed", "SuccessReported"}
    /\ Phase(i) = "Failed" <=> result[i].statusCode = 500
    /\ Phase(i) = "SuccessReported" <=> AllTasksCompleted(i)

\* An invocation that has returned takes no further step.
Stays ==
    \A i \in Invocations :
        Done(i) => frame[i]' = frame[i] /\ result[i]' = result[i]

C12_TerminatesOnPath ==
    /\ \A i \in Invocations : frame[i].pc = "idle" \/ <>Done(i)
    /\ [][Follows(ActualPath) /\ Stays]_vars
    /\ [](\A i \in Invocations : Done(i) => Terminal(i))

\* A run that went from Processing to DecodeFailed and on to Failed.
C12_Witness ==
    \E i \in Started :
        /\ Phase(i) = "Failed"
        /\ Len(SuccessPublishes(i)) = 1 /\ NoCallRaised(i)
        /\ frame[i].e = JSONDecodeError

----------------------------------------------------------------------------
(* C13: for every original key k and every processing time t, the           *)
(* destination key of lines 42-43 is "processed_", then t written as        *)
(* YYYYMMDD_HHMMSS (fifteen characters: eight digits, "_", six digits, that *)
(* read back as the date and the time of t), then "_", then k; so removing  *)
(* its first 10 + 15 + 1 characters gives back exactly k.                   *)
IsDigit(ch) == \E n \in 0..9 : Digits[n + 1] = ch
DigitValue(ch) == CHOOSE n \in 0..9 : Digits[n + 1] = ch

RECURSIVE Number(_)
Number(str) ==
    IF Len(str) = 0 THEN 0
    ELSE 10 * Number(SubSeq(str, 1, Len(str) - 1))
            + DigitValue(SubSeq(str, Len(str), Len(str)))

\* ts is YYYYMMDD_HHMMSS and reads back as the time t
IsTimestampOf(ts, t) ==
    /\ Len(ts) = 15
    /\ \A j \in (1..8) \cup (10..15) : IsDigit(SubSeq(ts, j, j))
    /\ SubSeq(ts, 9, 9) = "_"
    /\ Number(SubSeq(ts, 1, 4)) = 2024
    /\ Number(SubSeq(ts, 5, 6)) = 1
    /\ (Number(SubSeq(ts, 7, 8)) - 1) * 86400 + Number(SubSeq(ts, 10, 11)) * 3600
          + Number(SubSeq(ts, 12, 13)) * 60 + Number(SubSeq(ts, 14, 15)) = t

StripPrefix(key) == SubSeq(key, 10 + 15 + 1 + 1, Len(key))

C13_DestinationKeyRoundTrip ==
    \A i \in Invocations :
        frame[i].pc = "put_object_args" =>
            LET k == frame[i].object_key
                d == frame[i].output_key
            IN  /\ Len(d) = 10 + 15 + 1 + Len(k)
                /\ SubSeq(d, 1, 10) = "processed_"
                /\ IsTimestampOf(SubSeq(d, 11, 25), now)
                /\ SubSeq(d, 26, 26) = "_"
                /\ StripPrefix(d) = k

\* The key of notes.txt processed one minute after midnight, every field of
\* the time but one a single digit.
C13_Witness ==
    \E i \in Invocations :
        /\ frame[i].pc = "put_object_args"
        /\ now = 60
        /\ frame[i].object_key = "notes.txt"
        /\ frame[i].output_key = "processed_20240101_000100_notes.txt"
        /\ StripPrefix(frame[i].output_key) = "notes.txt"

----------------------------------------------------------------------------
(* C14: for every content that is not UTF-8 text, the artifact of           *)
(* process_file_content is the binary report followed by exactly the bytes  *)
(* of the content, one for one and unchanged; and which of the two reports  *)
(* is produced depends only on whether the content decodes, whatever the    *)
(* key or its extension.                                                    *)

\* The sample contents that are UTF-8 text, spelled out: sequences of 'h' and
\* of 0xC2 followed by a continuation byte
RECURSIVE IsSampleText(_)
IsSampleText(bs) ==
    IF bs = <<>> THEN TRUE
    ELSE IF Head(bs) = 104 THEN IsSampleText(Tail(bs))
    ELSE IF Len(bs) >= 2 /\ bs[1] = 194 /\ bs[2] \in {169, 137}
         THEN IsSampleText(SubSeq(bs, 3, Len(bs)))
    ELSE FALSE

StartsWith(str, prefix) ==
    Len(str) >= Len(prefix) /\ SubSeq(str, 1, Len(prefix)) = prefix

IsReport(part, title) ==
    "text" \in DOMAIN part /\ StartsWith(part.text, "\n" \o title \o "\n")

C14_BinaryContentPreserved ==
    \A i \in Invocations :
        frame[i].pc \in {"output_key", "put_object_args"} =>
            \A o \in s3 :
                LET c == o.Body
                    a == frame[i].processed_content
                IN  /\ ~IsSampleText(c) =>
                          /\ Len(a) = 1 + Len(c)
                          /\ IsReport(a[1], "Binary File Processing Report")
                          /\ \A j \in 1..Len(c) : a[1 + j] = [byte |-> c[j]]
                    /\ IsSampleText(c) =>
                          /\ Len(a) = 2 + Len(c)
                          /\ IsReport(a[1], "File Processing Report")
                          /\ \A j \in 1..Len(c) : "byte" \in DOMAIN a[1 + j]

\* A file named like a text file whose content does not decode: the artifact
\* is the binary report and then the two bytes, the 'h' still in lower case.
C14_Witness ==
    \E i \in Invocations :
        /\ frame[i].pc = "output_key"
        /\ frame[i].object_key = "notes.txt"
        /\ \E o \in s3 : o.Body = <<137, 104>>
        /\ Len(frame[i].processed_content) = 3
        /\ IsReport(frame[i].processed_content[1], "Binary File Processing Report")
        /\ frame[i].processed_content[2] = [byte |-> 137]
        /\ frame[i].processed_content[3] = [byte |-> 104]

----------------------------------------------------------------------------
(* C15: handler retries nothing.  The tasks of a batch each get at most one *)
(* retrieval, one store and one success publish (the j-th call of each kind *)
(* is for the j-th task, and there are no more calls of a kind than tasks); *)
(* a run makes at most one publish of an error message; and a call that     *)
(* raised is never followed by another call of its kind, only by the        *)
(* publish of the error message.                                            *)
SameKind(c, d) ==
    /\ c.op = d.op
    /\ c.op = "publish" => c.Message.json.status = d.Message.json.status

C15_NoRetry ==
    \A i \in Started :
        LET cs == CallsOf(i)
            T == TasksOf(event[i])
            G == SelectSeq(cs, IsGet)
            P == SelectSeq(cs, IsPut)
            S == SelectSeq(cs, IsSuccessPublish)
            E == SelectSeq(cs, IsErrorPublish)
        IN  /\ Len(G) <= Len(T) /\ Len(P) <= Len(G) /\ Len(S) <= Len(P)
            /\ \A j \in 1..Len(G) : GetRefersTo(G[j], T[j])
            /\ \A j \in 1..Len(P) : PutRefersTo(P[j], T[j])
            /\ \A j \in 1..Len(S) : PublishRefersTo(S[j], T[j])
            /\ Len(E) <= 1
            /\ \A p \in Raisers(cs) :
                  \A q \in (p + 1)..Len(cs) :
                      ~SameKind(cs[p], cs[q]) /\ IsErrorPublish(cs[q])

\* A finished run of two tasks: the first complete, the store of the second
\* raised, and so did the publish of the error message; every call was made
\* once.
C15_Witness ==
    \E i \in Started :
        /\ Done(i)
        /\ Len(Gets(i)) = 2 /\ Len(Puts(i)) = 2 /\ Len(SuccessPublishes(i)) = 1
        /\ ~Returned(Puts(i)[2])
        /\ Len(ErrorPublishes(i)) = 1 /\ ~Returned(ErrorPublishes(i)[1])
        /\ Len(CallsOf(i)) = 6

----------------------------------------------------------------------------
(* Two invocations of handler on one store, one topic and one clock: the    *)
(* second may be a redelivery of the batch of the first or any other batch, *)
(* and their steps interleave in every way (one after the other included).  *)
(* Each batch is one well-formed record, and the two batches together have  *)
(* at most MaxTasks tasks.  Invocation 2 is either not invoked at all or    *)
(* invoked with at least one task and no more than invocation 1 (the two    *)
(* are interchangeable).                                                    *)

OneRecordEvents ==
    {ev \in Events : "Records" \in DOMAIN ev /\ WellFormed(ev) /\ Len(ev.Records) = 1}

ConcurrentInit ==
    /\ InitCommon
    /\ EnvOk
    /\ event \in [Invocations -> OneRecordEvents]
    /\ Len(TasksOf(event[1])) + Len(TasksOf(event[2])) <= MaxTasks
    /\ Len(TasksOf(event[2])) <= Len(TasksOf(event[1]))
    /\ frame = [i \in Invocations |->
          [InitFrame EXCEPT !.pc = IF i = 1 \/ Len(TasksOf(event[i])) > 0
                                   THEN "start" ELSE "idle"]]

ConcurrentSpec == ConcurrentInit /\ [][Next]_vars

----------------------------------------------------------------------------
(* C16: when the same source key is processed twice, in one batch or by a   *)
(* second invocation, and both stores return: if the clock showed the same  *)
(* second at line 42 both times, the two destination keys are the same and  *)
(* the output bucket holds one object under it, that of the later store;    *)
(* if it showed different seconds, the keys differ and the output bucket    *)
(* holds two objects for the one source object.                             *)

\* The stores that returned, by their position in the calls
ReturnedPutsAt == {p \in 1..Len(calls) : IsPut(calls[p]) /\ Returned(calls[p])}

\* The source key of the store at position p: that of the retrieval its
\* invocation made last before it
SourceOf(p) ==
    LET gs == {g \in 1..(p - 1) : calls[g].inv = calls[p].inv /\ IsGet(calls[g])}
    IN  calls[CHOOSE g \in gs : \A h \in gs : h <= g].Key

ObjectsUnder(keys) == {o \in s3 : o.Bucket = OutputBucketName /\ o.Key \in keys}

C16_CollisionOrDuplicate ==
    LET R == ReturnedPutsAt IN
    \A p \in R :
        \A q \in {r \in R : r > p} :
            SourceOf(p) = SourceOf(q) =>
                LET c == calls[p]
                    d == calls[q]
                IN  /\ c.at = d.at =>
                          /\ c.Key = d.Key
                          /\ Cardinality(ObjectsUnder({c.Key})) = 1
                          /\ (\A r \in R : r > q => calls[r].Key # d.Key)
                                => Holds(s3, d)
                    /\ c.at # d.at =>
                          /\ c.Key # d.Key
                          /\ Cardinality(ObjectsUnder({c.Key, d.Key})) = 2

\* The batch of one invocation redelivered to the other, the two stores in
\* the same second: one object in the output bucket after both returned.
C16_Witness ==
    /\ event[1] = event[2]
    /\ \A i \in Invocations : Done(i) /\ Len(ReturnedPuts(i)) = 1
    /\ ReturnedPuts(1)[1].at = ReturnedPuts(2)[1].at
    /\ ReturnedPuts(1)[1].Key = ReturnedPuts(2)[1].Key
    /\ Cardinality(StoredKeys) = 1

----------------------------------------------------------------------------
(* C17 as stated: whatever the other invocation does, when an invocation    *)
(* has returned, the output bucket holds under every key its success        *)
(* notifications report what it holds when the invocation runs alone and    *)
(* its calls go the same way.                                               *)

\* The output bucket's objects of a store under one key
Under(store, key) == {o \in store : o.Bucket = OutputBucketName /\ o.Key = key}

\* The store invocation i leaves when it runs alone and its calls go as they did
AloneStore(i) == StoreAfter(SourceObjects, CallsOf(i))

C17_Original ==
    \A i \in Started :
        Done(i) =>
            LET S == SelectSeq(SuccessPublishes(i), Returned)
                alone == AloneStore(i)
            IN  \A j \in 1..Len(S) :
                    LET key == S[j].Message.json.processed_file.key
                    IN  Under(s3, key) = Under(alone, key)

(* C17, amended: two invocations share the output bucket and nothing else.  *)
(* Under every interleaving, the status an invocation returns is decided by *)
(* its own calls as when it runs alone (200 exactly when all its tasks      *)
(* completed), and no step of one touches the local variables or the result *)
(* of the other; its calls follow one another as in a run alone (retrieval,   *)
(* store, success publish, task after task in the order of its batch),      *)
(* and the topic holds the messages of the publishes that returned, in      *)
(* the order of the calls; the store is what the returned stores of both    *)
(* left, so under a key only one invocation wrote it holds what that        *)
(* invocation leaves when it runs alone.  A key both wrote is the key of    *)
(* the same source key stored in the same second, and it holds the content  *)
(* of the store that returned last.                                         *)
C17_OutcomesAsAlone ==
    LET R == ReturnedPutsAt
        RP == SelectSeq(calls, LAMBDA c : c.op = "publish" /\ Returned(c))
    IN  /\ s3 = StoreAfter(SourceObjects, calls)
        /\ Len(topic) = Len(RP)
        /\ \A n \in 1..Len(RP) :
              topic[n] = [Subject |-> RP[n].Subject, Message |-> RP[n].Message]
        /\ \A p \in R :
              LET c == calls[p]
                  others == {q \in R : calls[q].inv # c.inv /\ calls[q].Key = c.Key}
              IN  /\ others = {} => Under(s3, c.Key) = Under(AloneStore(c.inv), c.Key)
                  /\ \A q \in others :
                        /\ calls[q].at = c.at
                        /\ SourceOf(q) = SourceOf(p)
                        /\ (\A r \in R : calls[r].Key = c.Key => r <= q)
                              => Holds(s3, calls[q])
        /\ \A i \in Invocations :
              frame[i].pc # "idle" =>
                  LET cs == CallsOf(i)
                      T == TasksOf(event[i])
                      G == SelectSeq(cs, IsGet)
                  IN  /\ Done(i) =>
                            result[i].statusCode =
                                IF AllTasksCompleted(i) THEN 200 ELSE 500
                      /\ Len(G) <= Len(T)
                      /\ \A j \in 1..Len(G) : GetRefersTo(G[j], T[j])
                      /\ \A p \in 1..Len(cs) :
                            /\ IsGet(cs[p]) =>
                                  \/ p = 1
                                  \/ IsSuccessPublish(cs[p - 1]) /\ Returned(cs[p - 1])
                            /\ IsPut(cs[p]) =>
                                  /\ p > 1
                                  /\ IsGet(cs[p - 1]) /\ Returned(cs[p - 1])
                                  /\ cs[p].Key = "processed_" \o strftime(cs[p].at)
                                                    \o "_" \o cs[p - 1].Key
                            /\ IsSuccessPublish(cs[p]) =>
                                  /\ p > 1
                                  /\ IsPut(cs[p - 1]) /\ Returned(cs[p - 1])
                                  /\ cs[p].Message.json.processed_file.key = cs[p - 1].Key
                            /\ IsErrorPublish(cs[p]) => p = Len(cs)

\* A step of one invocation leaves the local variables and the result of
\* the other as they are, and takes nothing off the topic.
StepsAreOwn ==
    \A i \in Invocations :
        frame[i]' # frame[i] =>
            /\ \A j \in Invocations \ {i} : frame[j]' = frame[j] /\ result[j]' = result[j]
            /\ SubSeq(topic', 1, Len(topic)) = topic
            /\ SubSeq(calls', 1, Len(calls)) = calls

C17_SharedOnlyTheStore == []C17_OutcomesAsAlone /\ [][StepsAreOwn]_vars

\* Two invocations that processed the same source key, retrieved in
\* different seconds and stored in the same one: both returned 200 and
\* published their success, and the bucket holds the content of one only.
C17_Witness ==
    /\ \A i \in Invocations : Done(i) /\ result[i].statusCode = 200
    /\ Len(ReturnedPuts(1)) = 1 /\ Len(ReturnedPuts(2)) = 1
    /\ ReturnedPuts(1)[1].Key = ReturnedPuts(2)[1].Key
    /\ ReturnedPuts(1)[1].Body # ReturnedPuts(2)[1].Body
    /\ Len(Delivered("success")) = 2
    /\ \E i \in Invocations : ~Holds(s3, ReturnedPuts(i)[1])

----------------------------------------------------------------------------
(* The order of the calls of one invocation (lines 35-71, 80-102) *)

\* The kind of a call: its operation, and for a publish the status it reports
KindOf(c) == IF c.op = "publish" THEN c.Message.json.status ELSE c.op

\* The calls of one kind among the first n of cs that returned
ReturnedAmong(cs, n, kind) == {q \in 1..n : KindOf(cs[q]) = kind /\ Returned(cs[q])}

\* C18: in every reachable state, every success notification an invocation
\* has published reports the destination key of a store that returned
\* earlier in the same invocation for the same task (the k-th success
\* publish reports the k-th returned store, which followed the k-th
\* returned retrieval, of the source key the notification names), and what
\* is on the topic with status success names a key some store wrote; the
\* numbers of returned calls satisfy
\* success publishes <= stores <= retrievals, each pair at most 1 apart;
\* and no call of the invocation follows its error publish.
C18_PublishedAfterStored ==
    /\ \A i \in Started :
          LET cs == CallsOf(i)
              n == Len(cs)
              G == ReturnedAmong(cs, n, "get_object")
              S == ReturnedAmong(cs, n, "put_object")
              P == ReturnedAmong(cs, n, "success")
          IN  /\ \A p \in P :
                    \E q \in S : \E g \in G :
                        /\ g < q /\ q < p
                        /\ Cardinality(ReturnedAmong(cs, q, "put_object"))
                              = Cardinality(ReturnedAmong(cs, p, "success"))
                        /\ Cardinality(ReturnedAmong(cs, g, "get_object"))
                              = Cardinality(ReturnedAmong(cs, q, "put_object"))
                        /\ cs[p].Message.json.processed_file
                              = [bucket |-> cs[q].Bucket, key |-> cs[q].Key]
                        /\ cs[p].Message.json.original_file
                              = [bucket |-> cs[g].Bucket, key |-> cs[g].Key]
              /\ Cardinality(P) <= Cardinality(S)
              /\ Cardinality(S) <= Cardinality(G)
              /\ Cardinality(S) - Cardinality(P) <= 1
              /\ Cardinality(G) - Cardinality(S) <= 1
              /\ \A p \in 1..n : IsErrorPublish(cs[p]) => p = n
    /\ \A m \in 1..Len(topic) :
          topic[m].Message.json.status = "success" =>
              \E q \in ReturnedPutsAt :
                  /\ topic[m].Message.json.processed_file.key = calls[q].Key
                  /\ \E o \in s3 : o.Bucket = calls[q].Bucket /\ o.Key = calls[q].Key

\* A run that published the success of its first task, retrieved the
\* second, failed to store it and published the error.
C18_Witness ==
    /\ Done(1)
    /\ Len(SuccessPublishes(1)) = 1 /\ Returned(SuccessPublishes(1)[1])
    /\ Len(Gets(1)) = 2 /\ Returned(Gets(1)[2])
    /\ Len(Puts(1)) = 2 /\ ~Returned(Puts(1)[2])
    /\ Len(ErrorPublishes(1)) = 1 /\ Returned(ErrorPublishes(1)[1])
    /\ Len(topic) = 2

----------------------------------------------------------------------------
(* A missing configuration value (lines 14-17, 80-102) *)

\* C19: when OUTPUT_BUCKET or SNS_TOPIC_ARN is absent from the environment,
\* the invocation makes no retrieval and no store, nothing reaches the
\* topic (sns_topic_arn is unbound in the except clause, so the error
\* publish raises before any call is made and that is swallowed), the
\* bucket is left as it was, and handler returns status 500 carrying the
\* KeyError of the first missing variable.
C19_MissingConfiguration ==
    \A i \in Started :
        ~EnvOk =>
            /\ CallsOf(i) = <<>>
            /\ topic = <<>>
            /\ s3 = SourceObjects
            /\ frame[i].sns_topic_arn = Unbound
            /\ frame[i].pc \in {"start", "except", "return_error", "done"}
            /\ frame[i].pc # "start" =>
                  frame[i].e = IF "OUTPUT_BUCKET" \notin DOMAIN environ
                               THEN KeyError("OUTPUT_BUCKET")
                               ELSE KeyError("SNS_TOPIC_ARN")
            /\ Done(i) =>
                  result[i] = [statusCode |-> 500,
                               body |-> JsonString("Error processing files: "
                                                      \o frame[i].e)]

\* handler returned with only SNS_TOPIC_ARN missing, on a batch that has a task.
C19_Witness ==
    /\ DOMAIN environ = {"OUTPUT_BUCKET"}
    /\ Done(1)
    /\ result[1].statusCode = 500
    /\ frame[1].output_bucket = OutputBucketName
    /\ Len(TasksOf(event[1])) > 0
    /\ calls = <<>>

====
